---- MODULE Spec2Model ----
(***************************************************************************)
(* Model of the notification engine of src/src/App.jsx: the NotificationApp *)
(* component (bootstrap chain, login, logout, read / delete / mark-all     *)
(* mutations of the notifications list) and the useWebSocket hook (one     *)
(* WebSocket per run of its effect, its four event handlers, its cleanup). *)
(*                                                                         *)
(* JavaScript runs every handler to completion, so each action below is    *)
(* one handler or one continuation after an await.  A React state update   *)
(* and the effect run it triggers are modelled in the same step.           *)
(***************************************************************************)
EXTENDS Integers, Sequences, FiniteSets

(* ------------------------------ bounds -------------------------------- *)
\* record ids that occur (server-assigned or synthesized from Date.now())
MaxId == 2
\* WebSocket objects that exist at the same time (closed ones are collected)
MaxSockets == 1
\* the same, in the specification of the connection alone (ConnSpec)
MaxConnSockets == 2
\* REST mutation calls (mark-read, delete) in flight at the same time
MaxInflight == 2

(* ----------------------------- constants ------------------------------ *)
\* close code of a normal closure, the only one that arms no timer
NORMAL_CLOSURE == 1000

Ids == 1..MaxId
Slots == 1..MaxSockets
ConnSlots == 1..MaxConnSockets
\* the codes a close event carries here: normal closure, 1001 (the server
\* goes away) and 1006 (connection lost)
CloseCodes == {NORMAL_CLOSURE, 1001, 1006}
\* user is the profile object; only its id matters; NoUser is null
NoUser == 0
TheUser == 1
\* the socket state variable is a WebSocket object or null
NoSocket == 0
\* the data field of a frame that carries no nested record
NoData == 0

VARIABLES
    token,            \* localStorage[TOKEN_KEY] is set
    user,             \* useState user: NoUser or the profile's id
    notifications,    \* useState notifications: sequence of [id, read]
    loading,          \* useState loading
    error,            \* useState error: "null", "load", "login"
    pc,               \* the await the bootstrap / login chain is suspended at
    ws,               \* the WebSocket objects: slot -> [st, stale]; its domain
                      \* is the slots of the specification (Slots, ConnSlots)
    socket,           \* useState socket of useWebSocket
    isConnected,      \* useState isConnected
    connectionError,  \* useState connectionError: "null", "notoken", "failed"
    calls,            \* REST mutation calls in flight: [op, id, pre]
    ma,               \* markAllAsRead's Promise.all: "idle", "running", "rejected"
    maOk,             \* ids whose call of the running markAllAsRead succeeded
    seeded,           \* the fetched list was applied in the current session
    everRead,         \* ids whose record was read in the store in this session
    last              \* the handler that ran last, with what it observed

vars == <<token, user, notifications, loading, error, pc, ws, socket,
          isConnected, connectionError, calls, ma, maOk, seeded, everRead, last>>

appVars == <<token, user, notifications, loading, error, pc>>
hookVars == <<ws, socket, isConnected, connectionError>>
callVars == <<calls, ma, maOk>>

(* --------------------------- the store --------------------------------- *)
Rec(i, r) == [id |-> i, read |-> r]

HasId(s, i) == \E n \in 1..Len(s) : s[n].id = i

\* n.read || n.is_read of the record with id i
IsRead(s, i) == \E n \in 1..Len(s) : s[n].id = i /\ s[n].read

NoDuplicateIds(s) == \A m, n \in 1..Len(s) : s[m].id = s[n].id => m = n

\* notifications.filter((n) => !n.read && !n.is_read)
unreadNotifications(s) == {s[n].id : n \in {m \in 1..Len(s) : ~s[m].read}}

\* the record ws.onmessage builds from a "notification" frame: read is false
PushedRecord(i) == Rec(i, FALSE)

\* faulty variant: the exists check is dropped
M_handleNewNotification_NoCheck(prev, notification) == <<notification>> \o prev

\* faulty variant: the new record is put behind the others
M_handleNewNotification_Append(prev, notification) ==
    IF HasId(prev, notification.id) THEN prev ELSE Append(prev, notification)

\* the updater of handleNewNotification
handleNewNotification(prev, notification) ==
    IF HasId(prev, notification.id) THEN prev ELSE <<notification>> \o prev

\* the updater of markAsRead
applyRead(prev, notificationId) ==
    [n \in 1..Len(prev) |->
        IF prev[n].id = notificationId THEN Rec(prev[n].id, TRUE) ELSE prev[n]]

\* the updater of deleteNotification
applyDelete(prev, notificationId) ==
    SelectSeq(prev, LAMBDA n : n.id # notificationId)

\* the updater of markAllAsRead
applyAllRead(prev) == [n \in 1..Len(prev) |-> Rec(prev[n].id, TRUE)]

\* lists of records with distinct ids, in any order, read or not
RECURSIVE ListsOver(_)
ListsOver(S) ==
    {<<>>} \cup UNION {{<<Rec(i, r)>> \o t : r \in BOOLEAN, t \in ListsOver(S \ {i})} : i \in S}

\* what api.getNotifications can resolve to: an object whose notifications
\* field is the list ("wrapped"), the list itself ("bare"), or an object
\* without a notifications array ("other")
Responses == [shape : {"wrapped", "bare", "other"}, items : ListsOver(Ids)]

\* Array.isArray(data.notifications) ? data.notifications
\*   : Array.isArray(data) ? data : []
notificationsList(data) ==
    IF data.shape = "wrapped" THEN data.items
    ELSE IF data.shape = "bare" THEN data.items
    ELSE <<>>

\* the frames ws.onmessage can receive: text that is JSON or not, with a
\* type and a data field that holds a record (its id) or is missing
Frames == [json : BOOLEAN, type : {"notification", "unread_count", "other"},
           data : {NoData} \cup Ids]

NotificationFrame(i) == [json |-> TRUE, type |-> "notification", data |-> i]

\* faulty variant: the type of the frame is not looked at
M_delivers_AnyType(f) == f.json /\ f.data # NoData

\* whether ws.onmessage reaches onMessage: JSON.parse must not throw, the
\* type must be "notification", and reading notificationData.id must not
\* throw (data.data is there); everything else ends in the catch or nowhere
delivers(f) == f.json /\ f.type = "notification" /\ f.data # NoData

\* the body of ws.onmessage as a change of the store
onmessage(prev, f) ==
    IF delivers(f) THEN handleNewNotification(prev, PushedRecord(f.data)) ELSE prev

\* Notification.permission, read by handleNewNotification at each push
Permissions == {"granted", "default", "denied"}

\* whether handleNewNotification shows a browser notification
nativeAlert(permission) == permission = "granted"

(* ------------------------ the WebSocket objects ------------------------ *)
\* st: "none" (no object), "connecting", "open", "closing" (readyState 0..2),
\* "failing" (transport failed: error delivered, close still to come),
\* "timer" (closed abnormally, the setTimeout of onclose is pending).
\* stale: the effect that created the object has been cleaned up.
NoWs == [st |-> "none", stale |-> FALSE]

FreeSlots(w) == {k \in DOMAIN w : w[k].st = "none"}

LowestFree(w) == CHOOSE k \in FreeSlots(w) : \A j \in FreeSlots(w) : k <= j

\* the cleanup the effect returns: close(1000) only when readyState is OPEN
cleanup(w) ==
    [k \in DOMAIN w |->
        IF w[k].st = "none" \/ w[k].stale THEN w[k]
        ELSE [st |-> IF w[k].st = "open" THEN "closing" ELSE w[k].st,
              stale |-> TRUE]]

\* new WebSocket(wsUrl)
connect(w) == [w EXCEPT ![LowestFree(w)] = [st |-> "connecting", stale |-> FALSE]]

\* faulty variant: the token is not looked at
M_effectWs_NoTokenCheck(w, uid, tok) ==
    IF uid = NoUser \/ FreeSlots(cleanup(w)) = {} THEN cleanup(w)
    ELSE connect(cleanup(w))

\* one run of the effect of useWebSocket after userId changed to uid:
\* the previous run's cleanup, then the body
effectWs(w, uid, tok) ==
    IF uid = NoUser \/ ~tok THEN cleanup(w) ELSE connect(cleanup(w))

effectError(ce, uid, tok) ==
    IF uid # NoUser /\ ~tok THEN "notoken" ELSE ce

\* whether the effect can run within the bound on live sockets
CanRunEffect(w, uid, tok) ==
    (uid # NoUser /\ tok) => FreeSlots(cleanup(w)) # {}

Ev(op) == [op |-> op]

(* ------------------------------- Init ---------------------------------- *)
\* the state once the mount effect has run initializeApp up to its first
\* await: with a stored token loadUserProfile is awaiting api.getProfile,
\* without one setLoading(false) has run and the login form shows
InitWith(slots) ==
    /\ token \in BOOLEAN
    /\ user = NoUser
    /\ notifications = <<>>
    /\ loading = token
    /\ error = "null"
    /\ pc = IF token THEN "mount_profile" ELSE "idle"
    /\ ws = [k \in slots |-> NoWs]
    /\ socket = NoSocket
    /\ isConnected = FALSE
    /\ connectionError = "null"
    /\ calls = {}
    /\ ma = "idle"
    /\ maOk = {}
    /\ seeded = FALSE
    /\ everRead = {}
    /\ last = Ev("init")

Init == InitWith(Slots)

ConnInit == InitWith(ConnSlots)

\* everRead after a step that leaves the store as s
Seen(s) == everRead \cup {i \in Ids : IsRead(s, i)}

(* ---------------- bootstrap chain: initializeApp / loadUserProfile ------ *)
\* api.getProfile resolved: setUser(profileData); the render that follows
\* runs the effect of useWebSocket for the new user.id; then
\* api.getNotifications is awaited
LoadProfileOk ==
    /\ pc = "mount_profile"
    /\ CanRunEffect(ws, TheUser, token)
    /\ user' = TheUser
    /\ ws' = effectWs(ws, TheUser, token)
    /\ connectionError' = effectError(connectionError, TheUser, token)
    /\ pc' = "mount_list"
    /\ last' = [op |-> "profile_ok", path |-> "mount", token |-> token]
    /\ UNCHANGED <<token, notifications, loading, error, socket, isConnected,
                   calls, ma, maOk, seeded, everRead>>

\* faulty variant: the token is left in the storage
M_bootstrapFailed_KeepsToken ==
    /\ error' = "load"
    /\ user' = NoUser
    /\ ws' = IF user = NoUser THEN ws ELSE effectWs(ws, NoUser, FALSE)
    /\ loading' = FALSE
    /\ pc' = "idle"
    /\ everRead' = {}
    /\ UNCHANGED <<token, notifications, socket, isConnected, connectionError,
                   calls, ma, maOk, seeded>>

\* the catch and finally of loadUserProfile, then the catch of initializeApp
\* and its setLoading(false); user was null or TheUser
bootstrapFailed ==
    /\ error' = "load"
    /\ token' = FALSE
    /\ user' = NoUser
    /\ ws' = IF user = NoUser THEN ws ELSE effectWs(ws, NoUser, FALSE)
    /\ loading' = FALSE
    /\ pc' = "idle"
    /\ everRead' = {}
    /\ UNCHANGED <<notifications, socket, isConnected, connectionError,
                   calls, ma, maOk, seeded>>

LoadProfileFail ==
    /\ pc = "mount_profile"
    /\ bootstrapFailed
    /\ last' = [op |-> "profile_fail", path |-> "mount"]

\* api.getNotifications resolved: setNotifications(notificationsList)
LoadNotificationsOk ==
    /\ pc = "mount_list"
    /\ \E notificationsData \in Responses :
        /\ notifications' = notificationsList(notificationsData)
        /\ last' = [op |-> "list_ok", data |-> notificationsData]
    /\ error' = "null"
    /\ loading' = FALSE
    /\ pc' = "idle"
    /\ seeded' = TRUE
    /\ everRead' = Seen(notifications')
    /\ UNCHANGED <<token, user, ws, socket, isConnected, connectionError,
                   calls, ma, maOk>>

LoadNotificationsFail ==
    /\ pc = "mount_list"
    /\ bootstrapFailed
    /\ last' = [op |-> "list_fail", path |-> "mount"]

(* ------------------------------- login --------------------------------- *)
\* the login form is rendered only when neither loading nor user is set
handleLogin ==
    /\ pc = "idle" /\ ~loading /\ user = NoUser
    /\ loading' = TRUE
    /\ error' = "null"
    /\ pc' = "login"
    /\ last' = Ev("login")
    /\ UNCHANGED <<token, user, notifications, ws, socket, isConnected,
                   connectionError, calls, ma, maOk, seeded, everRead>>

\* api.login resolved: setAuthToken(data.access_token)
LoginOk ==
    /\ pc = "login"
    /\ token' = TRUE
    /\ pc' = "login_profile"
    /\ last' = Ev("login_ok")
    /\ UNCHANGED <<user, notifications, loading, error, ws, socket, isConnected,
                   connectionError, calls, ma, maOk, seeded, everRead>>

\* the catch and finally of handleLogin: nothing but error and loading change
loginFailed ==
    /\ error' = "login"
    /\ loading' = FALSE
    /\ pc' = "idle"
    /\ UNCHANGED <<token, user, notifications, ws, socket, isConnected,
                   connectionError, calls, ma, maOk, seeded, everRead>>

LoginFail ==
    /\ pc = "login"
    /\ loginFailed
    /\ last' = Ev("login_fail")

LoginProfileOk ==
    /\ pc = "login_profile"
    /\ CanRunEffect(ws, TheUser, token)
    /\ user' = TheUser
    /\ ws' = effectWs(ws, TheUser, token)
    /\ connectionError' = effectError(connectionError, TheUser, token)
    /\ pc' = "login_list"
    /\ last' = [op |-> "profile_ok", path |-> "login", token |-> token]
    /\ UNCHANGED <<token, notifications, loading, error, socket, isConnected,
                   calls, ma, maOk, seeded, everRead>>

LoginProfileFail ==
    /\ pc = "login_profile"
    /\ loginFailed
    /\ last' = [op |-> "profile_fail", path |-> "login"]

LoginNotificationsOk ==
    /\ pc = "login_list"
    /\ \E notificationsData \in Responses :
        /\ notifications' = notificationsList(notificationsData)
        /\ last' = [op |-> "list_ok", data |-> notificationsData]
    /\ loading' = FALSE
    /\ pc' = "idle"
    /\ seeded' = TRUE
    /\ everRead' = Seen(notifications')
    /\ UNCHANGED <<token, user, error, ws, socket, isConnected, connectionError,
                   calls, ma, maOk>>

LoginNotificationsFail ==
    /\ pc = "login_list"
    /\ loginFailed
    /\ last' = [op |-> "list_fail", path |-> "login"]

(* ------------------------------- logout -------------------------------- *)
\* the logout button belongs to the main view: user set and not loading
handleLogout ==
    /\ pc = "idle" /\ ~loading /\ user # NoUser
    /\ token' = FALSE
    /\ user' = NoUser
    /\ notifications' = <<>>
    /\ error' = "null"
    /\ ws' = effectWs(ws, NoUser, FALSE)
    /\ seeded' = FALSE
    /\ everRead' = {}
    /\ last' = Ev("logout")
    /\ UNCHANGED <<loading, pc, socket, isConnected, connectionError,
                   calls, ma, maOk>>

(* ------------------------ mutations of the store ----------------------- *)
\* the buttons of the main view: user set and not loading
MainView == pc = "idle" /\ ~loading /\ user # NoUser

Call(op, i, pre) == [op |-> op, id |-> i, pre |-> pre]

AllCalls(cs) == {c \in cs : c.op = "all"}

\* faulty variant: readyState is not looked at
M_sendMessage_NoStateCheck(sock, w) == sock # NoSocket

\* sendMessage: socket.send only if the socket state holds an OPEN WebSocket
sendMessage(sock, w) == sock # NoSocket /\ w[sock].st = "open"

\* faulty variant: the updater runs before the await
M_markAsRead_Optimistic(i) ==
    /\ MainView
    /\ HasId(notifications, i)
    /\ Cardinality(calls) < MaxInflight
    /\ Call("read", i, IsRead(notifications, i)) \notin calls
    /\ calls' = calls \cup {Call("read", i, IsRead(notifications, i))}
    /\ notifications' = applyRead(notifications, i)
    /\ everRead' = Seen(notifications')
    /\ last' = [op |-> "markAsRead", id |-> i]
    /\ UNCHANGED <<token, user, loading, error, pc, hookVars, ma, maOk, seeded>>

\* markAsRead up to its await: the remote call is issued, nothing else
markAsRead(i) ==
    /\ MainView
    /\ HasId(notifications, i)
    /\ Cardinality(calls) < MaxInflight
    /\ Call("read", i, IsRead(notifications, i)) \notin calls
    /\ calls' = calls \cup {Call("read", i, IsRead(notifications, i))}
    /\ last' = [op |-> "markAsRead", id |-> i]
    /\ UNCHANGED <<appVars, hookVars, ma, maOk, seeded, everRead>>

\* api.markNotificationAsRead resolved: the updater, then sendMessage
MarkAsReadOk(c) ==
    /\ c \in calls /\ c.op = "read"
    /\ notifications' = applyRead(notifications, c.id)
    /\ calls' = calls \ {c}
    /\ everRead' = Seen(notifications')
    /\ last' = [op |-> "read_ok", id |-> c.id, pre |-> c.pre,
                sent |-> sendMessage(socket, ws)]
    /\ UNCHANGED <<token, user, loading, error, pc, hookVars, ma, maOk, seeded>>

\* faulty variant: the updater runs although the call was rejected
M_MarkAsReadFail_Applies(c) ==
    /\ c \in calls /\ c.op = "read"
    /\ calls' = calls \ {c}
    /\ notifications' = applyRead(notifications, c.id)
    /\ everRead' = Seen(notifications')
    /\ last' = [op |-> "read_fail", id |-> c.id, pre |-> c.pre]
    /\ UNCHANGED <<token, user, loading, error, pc, hookVars, ma, maOk, seeded>>

\* api.markNotificationAsRead rejected: the catch only logs
MarkAsReadFail(c) ==
    /\ c \in calls /\ c.op = "read"
    /\ calls' = calls \ {c}
    /\ last' = [op |-> "read_fail", id |-> c.id, pre |-> c.pre]
    /\ UNCHANGED <<appVars, hookVars, ma, maOk, seeded, everRead>>

\* faulty variant: the filter updater runs before the await
M_deleteNotification_Optimistic(i) ==
    /\ MainView
    /\ HasId(notifications, i)
    /\ Cardinality(calls) < MaxInflight
    /\ Call("delete", i, FALSE) \notin calls
    /\ calls' = calls \cup {Call("delete", i, FALSE)}
    /\ notifications' = applyDelete(notifications, i)
    /\ last' = [op |-> "delete", id |-> i]
    /\ UNCHANGED <<token, user, loading, error, pc, hookVars, ma, maOk,
                   seeded, everRead>>

\* deleteNotification up to its await
deleteNotification(i) ==
    /\ MainView
    /\ HasId(notifications, i)
    /\ Cardinality(calls) < MaxInflight
    /\ Call("delete", i, FALSE) \notin calls
    /\ calls' = calls \cup {Call("delete", i, FALSE)}
    /\ last' = [op |-> "delete", id |-> i]
    /\ UNCHANGED <<appVars, hookVars, ma, maOk, seeded, everRead>>

\* api.deleteNotification resolved: the filter updater
DeleteNotificationOk(c) ==
    /\ c \in calls /\ c.op = "delete"
    /\ notifications' = applyDelete(notifications, c.id)
    /\ calls' = calls \ {c}
    /\ last' = [op |-> "delete_ok", id |-> c.id]
    /\ UNCHANGED <<token, user, loading, error, pc, hookVars, ma, maOk,
                   seeded, everRead>>

\* api.deleteNotification rejected: the catch only logs
DeleteNotificationFail(c) ==
    /\ c \in calls /\ c.op = "delete"
    /\ calls' = calls \ {c}
    /\ last' = [op |-> "delete_fail", id |-> c.id]
    /\ UNCHANGED <<appVars, hookVars, ma, maOk, seeded, everRead>>

\* markAllAsRead up to its await: one call per unread record, under one
\* Promise.all; the button shows only while unreadCount > 0
markAllAsRead ==
    /\ MainView
    /\ unreadNotifications(notifications) # {}
    /\ ma = "idle" /\ AllCalls(calls) = {}
    /\ Cardinality(calls) + Cardinality(unreadNotifications(notifications)) <= MaxInflight
    /\ calls' = calls \cup {Call("all", i, FALSE) : i \in unreadNotifications(notifications)}
    /\ ma' = "running"
    /\ maOk' = {}
    /\ last' = [op |-> "markAll", ids |-> unreadNotifications(notifications)]
    /\ UNCHANGED <<appVars, hookVars, seeded, everRead>>

\* one call of the Promise.all resolved; when it is the last one and none was
\* rejected the Promise.all resolves and the updater marks every record read
MarkAllCallOk(c) ==
    /\ c \in calls /\ c.op = "all"
    /\ calls' = calls \ {c}
    /\ IF AllCalls(calls') = {}
       THEN /\ ma' = "idle"
            /\ maOk' = {}
            /\ notifications' = IF ma = "running" THEN applyAllRead(notifications)
                                ELSE notifications
            /\ last' = [op |-> "all_settled", applied |-> ma = "running",
                        ok |-> maOk \cup {c.id}]
       ELSE /\ maOk' = maOk \cup {c.id}
            /\ UNCHANGED <<ma, notifications>>
            /\ last' = [op |-> "all_call_ok", id |-> c.id]
    /\ everRead' = Seen(notifications')
    /\ UNCHANGED <<token, user, loading, error, pc, hookVars, seeded>>

\* one call of the Promise.all rejected: the Promise.all rejects at once and
\* the catch only logs; the calls still in flight settle later, unobserved
MarkAllCallFail(c) ==
    /\ c \in calls /\ c.op = "all"
    /\ calls' = calls \ {c}
    /\ IF AllCalls(calls') = {}
       THEN /\ ma' = "idle"
            /\ maOk' = {}
            /\ last' = [op |-> "all_settled", applied |-> FALSE, ok |-> maOk]
       ELSE /\ ma' = "rejected"
            /\ maOk' = maOk
            /\ last' = [op |-> "all_call_fail", id |-> c.id]
    /\ UNCHANGED <<appVars, hookVars, seeded, everRead>>

(* --------------------- the WebSocket event handlers -------------------- *)
\* ws.onopen
WsOpen(k) ==
    /\ ws[k].st = "connecting"
    /\ ws' = [ws EXCEPT ![k].st = "open"]
    /\ isConnected' = TRUE
    /\ connectionError' = "null"
    /\ socket' = k
    /\ last' = [op |-> "ws_open", stale |-> ws[k].stale]
    /\ UNCHANGED <<appVars, callVars, seeded, everRead>>

\* ws.onmessage with a frame of type "notification" whose record has id i:
\* onMessage is handleNewNotification
WsMessage(k, i) ==
    /\ ws[k].st = "open"
    /\ notifications' = onmessage(notifications, NotificationFrame(i))
    /\ \E permission \in Permissions :
        last' = [op |-> "ws_message", id |-> i, stale |-> ws[k].stale,
                 dup |-> HasId(notifications, i),
                 alert |-> nativeAlert(permission)]
    /\ UNCHANGED <<token, user, loading, error, pc, hookVars, callVars,
                   seeded, everRead>>

\* the frames that deliver no record: not JSON, a "notification" without
\* its nested record, or any other type
DiscardedFrames ==
    {f \in Frames : \/ ~f.json /\ f.type = "other" /\ f.data = NoData
                    \/ f.json /\ f.type = "notification" /\ f.data = NoData
                    \/ f.json /\ f.type # "notification"}

\* ws.onmessage with such a frame: the catch logs, or only unread_count is
\* logged, or nothing happens
WsDiscardedFrame(k, f) ==
    /\ ws[k].st = "open"
    /\ f \in DiscardedFrames
    /\ notifications' = onmessage(notifications, f)
    /\ last' = [op |-> "ws_discard", frame |-> f]
    /\ UNCHANGED <<token, user, loading, error, pc, hookVars, callVars,
                   seeded, everRead>>

\* ws.onerror: the transport failed; the close event follows
WsError(k) ==
    /\ ws[k].st \in {"connecting", "open", "closing"}
    /\ ws' = [ws EXCEPT ![k].st = "failing"]
    /\ connectionError' = "failed"
    /\ isConnected' = FALSE
    /\ last' = [op |-> "ws_error", stale |-> ws[k].stale]
    /\ UNCHANGED <<appVars, socket, callVars, seeded, everRead>>

\* the codes a socket in state st can close with: a failed transport and a
\* failed handshake close abnormally
CodesFor(st) ==
    IF st \in {"open", "closing"} THEN CloseCodes ELSE CloseCodes \ {NORMAL_CLOSURE}

\* faulty variant: every close arms the setTimeout
M_armsTimer_Always(code) == TRUE

\* ws.onclose: a code other than 1000 arms the setTimeout
armsTimer(code) == code # NORMAL_CLOSURE

WsClose(k, code) ==
    /\ ws[k].st \in {"connecting", "open", "closing", "failing"}
    /\ code \in CodesFor(ws[k].st)
    /\ isConnected' = FALSE
    /\ socket' = NoSocket
    /\ ws' = [ws EXCEPT ![k] = IF armsTimer(code) THEN [@ EXCEPT !.st = "timer"]
                                ELSE NoWs]
    /\ last' = [op |-> "ws_close", code |-> code, stale |-> ws[k].stale, k |-> k]
    /\ UNCHANGED <<appVars, connectionError, callVars, seeded, everRead>>

\* faulty variant: the callback opens a new connection
M_reconnectTimer_Connects(w, k) == connect([w EXCEPT ![k] = NoWs])

\* the setTimeout callback of onclose: it logs and does nothing else
reconnectTimer(w, k) == [w EXCEPT ![k] = NoWs]

TimerFire(k) ==
    /\ ws[k].st = "timer"
    /\ ws' = reconnectTimer(ws, k)
    /\ last' = [op |-> "timer", due |-> ~ws[k].stale /\ user # NoUser,
                stale |-> ws[k].stale]
    /\ UNCHANGED <<appVars, socket, isConnected, connectionError, callVars,
                   seeded, everRead>>

\* the token is removed from localStorage from outside the component
\* (another tab of the application logs out, the user clears the storage)
StorageCleared ==
    /\ token
    /\ token' = FALSE
    /\ last' = Ev("storage_cleared")
    /\ UNCHANGED <<user, notifications, loading, error, pc, hookVars, callVars,
                   seeded, everRead>>

(* ------------------------------- Next ---------------------------------- *)
CallRecords == [op : {"read", "delete", "all"}, id : Ids, pre : BOOLEAN]

Next ==
    \/ LoadProfileOk
    \/ LoadProfileFail
    \/ LoadNotificationsOk
    \/ LoadNotificationsFail
    \/ handleLogin
    \/ LoginOk
    \/ LoginFail
    \/ LoginProfileOk
    \/ LoginProfileFail
    \/ LoginNotificationsOk
    \/ LoginNotificationsFail
    \/ handleLogout
    \/ \E i \in Ids : markAsRead(i)
    \/ \E c \in CallRecords : MarkAsReadOk(c)
    \/ \E c \in CallRecords : MarkAsReadFail(c)
    \/ \E i \in Ids : deleteNotification(i)
    \/ \E c \in CallRecords : DeleteNotificationOk(c)
    \/ \E c \in CallRecords : DeleteNotificationFail(c)
    \/ markAllAsRead
    \/ \E c \in CallRecords : MarkAllCallOk(c)
    \/ \E c \in CallRecords : MarkAllCallFail(c)
    \/ \E k \in Slots : WsOpen(k)
    \/ \E k \in Slots, i \in Ids : WsMessage(k, i)
    \/ \E k \in Slots : WsError(k)
    \/ \E k \in Slots, code \in CloseCodes : WsClose(k, code)
    \/ \E k \in Slots : TimerFire(k)

Spec == Init /\ [][Next]_vars

\* the connection alone: the session chain, the sockets and their frames,
\* with more sockets alive at once and no read / delete / mark-all intents
\* (those neither read nor write the token, the user or the hook's state)
ConnNext ==
    \/ LoadProfileOk
    \/ LoadProfileFail
    \/ LoadNotificationsOk
    \/ LoadNotificationsFail
    \/ handleLogin
    \/ LoginOk
    \/ LoginFail
    \/ LoginProfileOk
    \/ LoginProfileFail
    \/ LoginNotificationsOk
    \/ LoginNotificationsFail
    \/ handleLogout
    \/ StorageCleared
    \/ \E k \in ConnSlots : WsOpen(k)
    \/ \E k \in ConnSlots, i \in Ids : WsMessage(k, i)
    \/ \E k \in ConnSlots, f \in Frames : WsDiscardedFrame(k, f)
    \/ \E k \in ConnSlots : WsError(k)
    \/ \E k \in ConnSlots, code \in CloseCodes : WsClose(k, code)
    \/ \E k \in ConnSlots : TimerFire(k)

ConnSpec == ConnInit /\ [][ConnNext]_vars

(* ------------------------------ claims --------------------------------- *)
IdSeq(s) == [n \in 1..Len(s) |-> s[n].id]

\* C1 (bootstrap gating): a pushed record is inserted into the store only
\* after the fetched list has been applied in the current session.
C1_BootstrapGating ==
    (last.op = "ws_message" /\ ~last.dup) => seeded

\* C2 (dedup): the store never holds two records with the same id, and a
\* push whose id is already in the store leaves the store as it was.
C2_Dedup ==
    /\ []NoDuplicateIds(notifications)
    /\ [][(last'.op = "ws_message" /\ last'.dup) => notifications' = notifications]_vars

C2_Witness ==
    /\ last.op = "ws_message" /\ last.dup
    /\ HasId(notifications, last.id)
    /\ seeded

\* C3 (read monotonicity): a record whose id was once read in the store is
\* never in the store unread afterwards.
C3_ReadMonotonic ==
    \A i \in everRead : HasId(notifications, i) => IsRead(notifications, i)

\* C4 (logout teardown): a WebSocket whose effect has been cleaned up is
\* never open, and no message of such a socket reaches the store.
C4_LogoutTeardown ==
    /\ \A k \in Slots : ws[k].stale => ws[k].st # "open"
    /\ last.op = "ws_message" => ~last.stale

\* C5 (reconnection): when the timer armed by an abnormal closure fires
\* while the user is still authenticated, a new WebSocket is being connected.
C5_Reconnect ==
    (last.op = "timer" /\ last.due) =>
        \E k \in Slots : ws[k].st = "connecting" /\ ~ws[k].stale

\* C6 (markAllRead partial success): once every call of a markAllAsRead has
\* settled, each record whose call succeeded is read in the store.
C6_PartialSuccess ==
    last.op = "all_settled" =>
        \A i \in last.ok : HasId(notifications, i) => IsRead(notifications, i)

\* C7 (delete asymmetry): invoking deleteNotification and a failed remote
\* delete both leave the store exactly as it was, and a record leaves the
\* store only by its own confirmed delete, a logout or a newly applied list.
C7_DeleteAsymmetry ==
    [][/\ last'.op \in {"delete", "delete_fail"} => notifications' = notifications
       /\ \A i \in Ids :
            (HasId(notifications, i) /\ ~HasId(notifications', i)) =>
                \/ last'.op = "delete_ok" /\ last'.id = i
                \/ last'.op \in {"logout", "list_ok"}]_vars

C7_Witness ==
    /\ last.op = "delete_fail"
    /\ HasId(notifications, last.id)

PendingTimers == {k \in DOMAIN ws : ws[k].st = "timer"}

\* C11 (reconnect idempotence): at every moment at most one reconnection
\* timer is pending.
C11_OneTimerPending == Cardinality(PendingTimers) <= 1

\* C12 (teardown cancels reconnect): when the timer of a socket whose
\* session was torn down fires, no WebSocket is created by it: every socket
\* that is connecting afterwards was connecting before.
C12_StaleTimerNoConnect ==
    [][(last'.op = "timer" /\ last'.stale) =>
            \A k \in DOMAIN ws :
                ws'[k].st = "connecting" => ws[k].st = "connecting"]_vars

C12_Witness ==
    /\ last.op = "timer"
    /\ last.stale

\* a fetch of the chain after the credential failed, on the given path
ChainFailed(l, path) ==
    /\ l.op \in {"profile_fail", "list_fail"}
    /\ l.path = path

\* C13 (bootstrap failure fallback): when the profile fetch or the list
\* fetch of the startup chain fails, the stored credential is cleared, user
\* is null and the loading flag is off, so the login form is rendered.
C13_MountFailureFallback ==
    [][ChainFailed(last', "mount") =>
            /\ ~token'
            /\ user' = NoUser
            /\ ~loading'
            /\ pc' = "idle"]_vars

C13_Witness ==
    /\ ChainFailed(last, "mount")
    /\ last.op = "list_fail"
    /\ error = "load"

\* C14 (login re-runs the chain): after a failure of the profile fetch or
\* of the list fetch that follow a successful login call, the credential is
\* cleared and user is null, as at startup.
C14_LoginFailureFallback ==
    ChainFailed(last, "login") => (~token /\ user = NoUser)

\* C15 (native alert only on insertion): a push whose id is already in
\* the store shows no browser notification.
C15_AlertOnlyOnInsertion ==
    (last.op = "ws_message" /\ last.alert) => ~last.dup

C17_NoTokenNoSocket ==
    [][(last'.op = "profile_ok" /\ ~last'.token) =>
            /\ connectionError' = "notoken"
            /\ \A k \in DOMAIN ws :
                    ws'[k].st = "connecting" => ws[k].st = "connecting"]_vars

C17_Witness ==
    /\ last.op = "profile_ok"
    /\ ~last.token
    /\ user = TheUser
    /\ FreeSlots(ws) # {}

\* C18 (normal closure suppresses reconnection): a close event arms the
\* timer of its socket exactly when its code is not 1000.
C18_TimerIffAbnormal ==
    [][last'.op = "ws_close" =>
            ((ws'[last'.k].st = "timer") = (last'.code # NORMAL_CLOSURE))]_vars

C18_Witness ==
    /\ last.op = "ws_close"
    /\ last.code = NORMAL_CLOSURE
    /\ ws[last.k].st = "none"
    /\ PendingTimers # {}

\* C19 (send while not open): the frame of markAsRead is sent only when
\* the socket state holds an open WebSocket; sending or not, the hook's
\* state is unchanged and the store gets the same update.
C19_SendOnlyWhenOpen ==
    [][last'.op = "read_ok" =>
            /\ last'.sent => (socket # NoSocket /\ ws[socket].st = "open")
            /\ UNCHANGED hookVars
            /\ notifications' = applyRead(notifications, last'.id)]_vars

C19_Witness ==
    /\ last.op = "read_ok"
    /\ ~last.sent
    /\ ~last.pre
    /\ IsRead(notifications, last.id)

\* the sockets created by the latest run of the effect
CurrentSockets ==
    {k \in DOMAIN ws : ws[k].st \in {"connecting", "open"} /\ ~ws[k].stale}

\* C20 (connect after seed): while the list fetch of the session is still
\* pending, on the startup path or on the login path, no WebSocket of the
\* session has been created.
C20_ConnectAfterSeed ==
    pc \in {"mount_list", "login_list"} => CurrentSockets = {}

\* C21 (markAllRead applies only the union of successes): when the calls
\* of a markAllAsRead have all settled, every record that becomes read in
\* that step is one whose remote call succeeded; a record pushed into the
\* store meanwhile, with no call of its own, stays unread.
C21_OnlyUnionOfSuccesses ==
    [][last'.op = "all_settled" =>
            \A i \in Ids :
                (HasId(notifications, i) /\ ~IsRead(notifications, i)
                    /\ IsRead(notifications', i)) => i \in last'.ok]_vars

\* C22 (no accepted push is lost), at startup: the store is empty when the
\* component mounts, so what it holds while the first list fetch is pending
\* was pushed in this session; applying the fetched list removes none of it.
C22_ListKeepsPushed ==
    [][(pc = "mount_list" /\ last'.op = "list_ok") =>
            \A i \in Ids :
                HasId(notifications, i) => HasId(notifications', i)]_vars

\* C23 (connection status tracks the current connection): while the
\* socket of the latest run of the effect is open and the status says so,
\* a close or error event of a superseded socket leaves isConnected true
\* and socket set to the current one.
C23_LateEventKeepsStatus ==
    [][(last'.op \in {"ws_close", "ws_error"} /\ last'.stale) =>
            \A k \in DOMAIN ws :
                (ws[k].st = "open" /\ ~ws[k].stale /\ isConnected /\ socket = k)
                    => (isConnected' /\ socket' = k)]_vars

====
